---- MODULE Spec2Model ----
(***************************************************************************)
(* GoogleProvider (google_provider.py): model-name resolution, response    *)
(* extraction, generate / transform dispatch, best-effort file naming and  *)
(* the scratch-file round trip of the Imagen path.                         *)
(*                                                                         *)
(* Python values are tagged records (field t is the Python type); Python   *)
(* strings are sequences of one-character strings, so that lower(),        *)
(* strip(), replace() and slicing are computed character by character.     *)
(***************************************************************************)
EXTENDS Naturals, Sequences, FiniteSets, TLC

VARIABLES
    default_model,  \* self.default_model, read once from GOOGLE_MODEL
    pc,             \* position of the running operation
    op,             \* "none" | "generate" | "transform"
    kwargs,         \* keyword arguments of the running operation
    prompt,         \* prompt of the running operation
    model_type,     \* local model_type of generate_image / transform_image
    model,          \* model id resolved for the primary generate_content call
    response,       \* what the primary call returned or raised
    extraction,     \* the latest _call_gemini: backend outcome, mode, result
    filename,       \* result of convert_prompt_to_filename
    calls,          \* external calls issued by the running operation, in order
    scratch,        \* names of the temporary files that exist on disk
    temp_path,      \* temp_path of the running _call_imagen
    failure,        \* the exception the operation ended with
    sel             \* the latest direct _get_model_name call

vars == <<default_model, pc, op, kwargs, prompt, model_type, model, response,
          extraction, filename, calls, scratch, temp_path, failure, sel>>

---------------------------------------------------------------------------
(* Bounds of the model *)

MaxParts == 2
MaxTemp == 2

---------------------------------------------------------------------------
(* Python values *)

PyNone == [t |-> "NoneType"]
Str(s) == [t |-> "str", v |-> s]
Bytes(b) == [t |-> "bytes", v |-> b]
List(s) == [t |-> "list", v |-> s]
IsNone(x) == x.t = "NoneType"

\* bool(x): None, empty sequences and empty strings are falsy, objects truthy
Truthy(x) ==
    CASE x.t = "NoneType" -> FALSE
      [] x.t \in {"list", "str"} -> Len(x.v) > 0
      [] OTHER -> TRUE

Raise(exc, msg) == [t |-> "raise", exc |-> exc, msg |-> msg]
Return(v) == [t |-> "return", v |-> v]
IsRaise(r) == r.t = "raise"
IsReturn(r) == r.t = "return"
isinstance_bytes(r) == IsReturn(r) /\ r.v.t = "bytes"
isinstance_str(r) == IsReturn(r) /\ r.v.t = "str"

---------------------------------------------------------------------------
(* Python string methods *)

AsciiUpper == <<"A", "B", "C", "D", "E", "F", "G", "H", "I", "J", "K", "L", "M",
                "N", "O", "P", "Q", "R", "S", "T", "U", "V", "W", "X", "Y", "Z">>
AsciiLower == <<"a", "b", "c", "d", "e", "f", "g", "h", "i", "j", "k", "l", "m",
                "n", "o", "p", "q", "r", "s", "t", "u", "v", "w", "x", "y", "z">>

lower_char(c) ==
    IF \E i \in DOMAIN AsciiUpper : AsciiUpper[i] = c
    THEN AsciiLower[CHOOSE i \in DOMAIN AsciiUpper : AsciiUpper[i] = c]
    ELSE c

lower(s) == [i \in 1..Len(s) |-> lower_char(s[i])]

IsSpace(c) == c \in {" ", "\t", "\n"}

RECURSIVE lstrip(_)
lstrip(s) == IF s # <<>> /\ IsSpace(Head(s)) THEN lstrip(Tail(s)) ELSE s

RECURSIVE rstrip(_)
rstrip(s) ==
    IF s # <<>> /\ IsSpace(s[Len(s)]) THEN rstrip(SubSeq(s, 1, Len(s) - 1)) ELSE s

strip(s) == rstrip(lstrip(s))

replace(s, old, new) == [i \in 1..Len(s) |-> IF s[i] = old THEN new ELSE s[i]]

\* s[:n]
slice_to(s, n) == SubSeq(s, 1, IF Len(s) < n THEN Len(s) ELSE n)

S_imagen == <<"i", "m", "a", "g", "e", "n">>
S_gemini == <<"g", "e", "m", "i", "n", "i">>
S_image_ == <<"i", "m", "a", "g", "e", "_">>
S_underscore == <<"_">>

---------------------------------------------------------------------------
(* Model ids *)

GEMINI_FLASH == "gemini-2.0-flash"
IMAGEN_MODEL == "imagen-4.0-generate-preview-06-06"
GEMINI_IMAGE_MODEL == "gemini-2.0-flash-preview-image-generation"

---------------------------------------------------------------------------
(* _get_model_name *)

\* variant: the family is compared without lower-casing it
get_model_name_case_sensitive(mt, for_generation) ==
    IF ~for_generation THEN GEMINI_FLASH
    ELSE LET effective_model_type == IF Truthy(mt) THEN mt.v ELSE default_model
         IN  IF effective_model_type = S_imagen THEN IMAGEN_MODEL
             ELSE GEMINI_IMAGE_MODEL

\* mt is None or a str; `mt or self.default_model` takes the default when mt
\* is None or the empty string
get_model_name(mt, for_generation) ==
    IF ~for_generation THEN GEMINI_FLASH
    ELSE LET effective_model_type == IF Truthy(mt) THEN mt.v ELSE default_model
         IN  IF lower(effective_model_type) = S_imagen THEN IMAGEN_MODEL
             ELSE GEMINI_IMAGE_MODEL

---------------------------------------------------------------------------
(* Backend response objects of generate_content *)

Blob(d) == [t |-> "Blob", data |-> d]
Part(text, inline_data) == [t |-> "Part", text |-> text, inline_data |-> inline_data]
Content(parts) == [t |-> "Content", parts |-> parts]
Candidate(content) == [t |-> "Candidate", content |-> content]
GenerateContentResponse(candidates) == [t |-> "Response", candidates |-> candidates]

MSG_NO_VALID == "No valid response received from Google API"
MSG_NO_TEXT == "No text content found in Google response"
MSG_TEXT_NONE == "Text content is None in Google response"
MSG_NO_PARTS == "No content parts found in Google response"
MSG_NO_IMAGE == "No image data found in Google response"
MSG_NONE_ATTR == "'NoneType' object has no attribute 'inline_data'"

\* `not response.candidates or not response.candidates[0]
\*  or not response.candidates[0].content`
no_valid_response(resp) ==
    \/ ~Truthy(resp.candidates)
    \/ ~Truthy(resp.candidates.v[1])
    \/ ~Truthy(resp.candidates.v[1].content)

\* variant: `if not text_content` in place of `if text_content is None`
extract_text_falsy(content) ==
    IF ~Truthy(content.parts) \/ ~Truthy(content.parts.v[1])
    THEN Raise("ValueError", MSG_NO_TEXT)
    ELSE LET text_content == content.parts.v[1].text
         IN  IF ~Truthy(text_content) THEN Raise("ValueError", MSG_TEXT_NONE)
             ELSE Return(Str(strip(text_content.v)))

\* variant: a null text reported with the message of the missing parts
extract_text_one_message(content) ==
    IF ~Truthy(content.parts) \/ ~Truthy(content.parts.v[1])
    THEN Raise("ValueError", MSG_NO_TEXT)
    ELSE LET text_content == content.parts.v[1].text
         IN  IF IsNone(text_content) THEN Raise("ValueError", MSG_NO_TEXT)
             ELSE Return(Str(strip(text_content.v)))

\* the text_only branch
extract_text(content) ==
    IF ~Truthy(content.parts) \/ ~Truthy(content.parts.v[1])
    THEN Raise("ValueError", MSG_NO_TEXT)
    ELSE LET text_content == content.parts.v[1].text
         IN  IF IsNone(text_content) THEN Raise("ValueError", MSG_TEXT_NONE)
             ELSE Return(Str(strip(text_content.v)))

\* the loop `for part in parts: if part.inline_data is not None and
\* part.inline_data.data is not None: return part.inline_data.data`;
\* a None element has no attribute inline_data
RECURSIVE scan_parts(_)
scan_parts(parts) ==
    IF parts = <<>> THEN Raise("ValueError", MSG_NO_IMAGE)
    ELSE LET part == Head(parts)
         IN  IF IsNone(part) THEN Raise("AttributeError", MSG_NONE_ATTR)
             ELSE IF ~IsNone(part.inline_data) /\ ~IsNone(part.inline_data.data)
                  THEN Return(part.inline_data.data)
                  ELSE scan_parts(Tail(parts))

\* variant: the loop keeps going and the last payload wins
RECURSIVE scan_parts_last(_, _)
scan_parts_last(parts, found) ==
    IF parts = <<>> THEN found
    ELSE LET part == Head(parts)
         IN  IF IsNone(part) THEN Raise("AttributeError", MSG_NONE_ATTR)
             ELSE IF ~IsNone(part.inline_data) /\ ~IsNone(part.inline_data.data)
                  THEN scan_parts_last(Tail(parts), Return(part.inline_data.data))
                  ELSE scan_parts_last(Tail(parts), found)

extract_image_last_wins(content) ==
    IF ~Truthy(content.parts) THEN Raise("ValueError", MSG_NO_PARTS)
    ELSE scan_parts_last(content.parts.v, Raise("ValueError", MSG_NO_IMAGE))

\* the image branch
extract_image(content) ==
    IF ~Truthy(content.parts) THEN Raise("ValueError", MSG_NO_PARTS)
    ELSE scan_parts(content.parts.v)

\* _call_gemini on the outcome of client.models.generate_content: the call
\* raised, or it returned a response; every exception is logged and re-raised
call_gemini(outcome, text_only) ==
    IF IsRaise(outcome) THEN outcome
    ELSE LET resp == outcome.v
         IN  IF no_valid_response(resp) THEN Raise("ValueError", MSG_NO_VALID)
             ELSE IF text_only THEN extract_text(resp.candidates.v[1].content)
                  ELSE extract_image(resp.candidates.v[1].content)

---------------------------------------------------------------------------
(* convert_prompt_to_filename *)

PROMPT_PREFIX_LEN == 12
UUID_PREFIX_LEN == 8

\* variant: the model type is left out of the file name
llm_filename_untagged(text, mt) == replace(strip(text), " ", "_")

\* f"{clean_filename}_{model_type}"
llm_filename(text, mt) ==
    replace(strip(text), " ", "_") \o S_underscore \o mt

\* variant: the whole prompt is used
fallback_filename_whole_prompt(p, mt, uuid4) ==
    S_image_ \o replace(strip(p), " ", "_") \o S_underscore \o mt
        \o S_underscore \o slice_to(uuid4, UUID_PREFIX_LEN)

\* f"image_{truncated_text}_{model_type}_{str(uuid.uuid4())[:8]}"
fallback_filename(p, mt, uuid4) ==
    S_image_ \o replace(strip(slice_to(p, PROMPT_PREFIX_LEN)), " ", "_")
        \o S_underscore \o mt \o S_underscore \o slice_to(uuid4, UUID_PREFIX_LEN)

\* the naming call's outcome decides between the two shapes; the except
\* clause catches every Exception of the try block
convert_prompt_to_filename(p, mt, outcome, uuid4) ==
    LET resp == call_gemini(outcome, TRUE)
    IN  IF isinstance_str(resp) THEN llm_filename(resp.v.v, mt)
        ELSE fallback_filename(p, mt, uuid4)

---------------------------------------------------------------------------
(* Inputs: environment, arguments and backend behaviour *)

SeqsUpTo(S, n) == UNION {[1..k -> S] : k \in 0..n}

\* values of GOOGLE_MODEL (unset gives "gemini", set to nothing gives "")
DefaultModels ==
    {S_gemini, S_imagen, <<"I", "M", "A", "G", "E", "N">>, <<>>}

\* values passed as model_type
Families ==
    {<<>>, S_gemini, S_imagen, <<"I", "m", "a", "g", "e", "n">>,
     <<"d", "a", "l", "l", "e">>}

\* **kwargs: a set of <<key, value>> pairs, with or without a model_type
KwargsValues == {{}} \cup {{<<"model_type", f>>} : f \in Families}

kwargs_get(kw, key, default) ==
    IF \E e \in kw : e[1] = key
    THEN (CHOOSE e \in kw : e[1] = key)[2]
    ELSE default

Prompts ==
    {<<"a", " ", "r", "e", "d", " ", "f", "o", "x", " ", "i", "n", " ", "s", "n", "o", "w">>,
     <<" ", "c", "a", "t">>,
     <<"h", "e", "l", "l", "o", " ", "w", "o", "r", "l", "d", " ", "a", "t", " ",
       "n", "i", "g", "h", "t">>}

\* str(uuid.uuid4())
Uuids ==
    {<<"3", "f", "2", "a", "9", "c", "1", "e", "-", "7", "b", "4", "d", "-", "4", "e",
       "8", "a", "-", "9", "c", "3", "f", "-", "1", "a", "2", "b", "3", "c", "4", "d",
       "5", "e", "6", "f">>,
     <<"0", "b", "7", "1", "d", "4", "a", "a", "-", "5", "2", "c", "9", "-", "4", "c",
       "1", "e", "-", "8", "f", "0", "b", "-", "9", "d", "8", "e", "7", "f", "6", "a",
       "5", "b", "4", "c">>}

\* parts a response may carry: an absent part, a part with neither text nor
\* inline data, text parts (empty and padded text), and parts with inline
\* data and no text (null payload, two images, a payload that is not bytes)
PartValues ==
    {PyNone,
     Part(PyNone, PyNone),
     Part(Str(<<>>), PyNone),
     Part(Str(<<" ", "R", "e", "d", " ", " ", "F", "o", "x", "\n">>), PyNone),
     Part(PyNone, Blob(PyNone)),
     Part(PyNone, Blob(Bytes("png-1"))),
     Part(PyNone, Blob(Bytes("png-2"))),
     Part(PyNone, Blob(Str(<<"b", "6", "4">>)))}

PartLists == {PyNone} \cup {List(ps) : ps \in SeqsUpTo(PartValues, MaxParts)}

\* response.candidates: None, empty, or a list of which only the first
\* element is read; two lists carry a second, usable candidate
CandidateLists ==
    {PyNone, List(<<>>), List(<<PyNone>>), List(<<Candidate(PyNone)>>),
     List(<<PyNone, Candidate(Content(List(<<Part(PyNone, Blob(Bytes("png-2")))>>)))>>),
     List(<<Candidate(PyNone),
            Candidate(Content(List(<<Part(Str(<<"o", "k">>), PyNone)>>)))>>)}
        \cup {List(<<Candidate(Content(ps))>>) : ps \in PartLists}

\* what client.models.generate_content does: raises, or returns a response
GenerateContentOutcomes ==
    {Raise("APIError", "generate_content failed")}
        \cup {Return(GenerateContentResponse(c)) : c \in CandidateLists}

GeneratedImage(image) == [t |-> "GeneratedImage", image |-> image]
Image(png) == [t |-> "Image", png |-> png]
hasattr_image(generated_image) == "image" \in DOMAIN generated_image

\* what client.models.generate_images does: raises, or returns a response
\* whose generated_images is None, empty, or starts with a record that has
\* no image attribute, a None image, or an image
GenerateImagesOutcomes ==
    {Raise("APIError", "generate_images failed"),
     Return([t |-> "ImagesResponse", generated_images |-> PyNone]),
     Return([t |-> "ImagesResponse", generated_images |-> List(<<>>)]),
     Return([t |-> "ImagesResponse",
             generated_images |-> List(<<[t |-> "GeneratedImage"]>>)]),
     Return([t |-> "ImagesResponse",
             generated_images |-> List(<<GeneratedImage(PyNone)>>)]),
     Return([t |-> "ImagesResponse",
             generated_images |-> List(<<GeneratedImage(Image("png-3"))>>)])}

TempNames == 1..MaxTemp
NoPath == 0

NoExtraction == [t |-> "none"]
NoSel == [t |-> "none"]
NoCall == [t |-> "none"]

---------------------------------------------------------------------------
(* State after construction *)

Init ==
    /\ default_model \in DefaultModels
    /\ pc = "idle"
    /\ op = "none"
    /\ kwargs = {}
    /\ prompt = <<>>
    /\ model_type = <<>>
    /\ model = ""
    /\ response = NoCall
    /\ extraction = NoExtraction
    /\ filename = PyNone
    /\ calls = <<>>
    /\ scratch = {}
    /\ temp_path = NoPath
    /\ failure = PyNone
    /\ sel = NoSel

ExternalCall(api, m) == [api |-> api, model |-> m]

\* the frame of a new operation
Enter(o, p, kw, mt) ==
    /\ op' = o
    /\ prompt' = p
    /\ kwargs' = kw
    /\ model_type' = mt
    /\ response' = NoCall
    /\ extraction' = NoExtraction
    /\ filename' = PyNone
    /\ calls' = <<>>
    /\ failure' = PyNone
    /\ sel' = NoSel
    /\ UNCHANGED <<default_model, scratch, temp_path>>

---------------------------------------------------------------------------
(* generate_image / transform_image up to the primary call *)

\* generate_image, lines 154-163: model_type from kwargs, then the dispatch
\* on model_type.lower() and, on the Gemini branch, the model id
generate_image(p, kw) ==
    /\ pc = "idle"
    /\ LET mt == kwargs_get(kw, "model_type", default_model)
       IN  /\ Enter("generate", p, kw, mt)
           /\ IF lower(mt) = S_imagen
              THEN /\ pc' = "call_imagen"
                   /\ model' = ""
              ELSE /\ pc' = "call_gemini"
                   /\ model' = get_model_name(Str(mt), TRUE)

\* transform_image, lines 184-194: "imagen" in any case is replaced by
\* "gemini" before the model id is resolved
transform_image(p, kw) ==
    /\ pc = "idle"
    /\ LET requested == kwargs_get(kw, "model_type", default_model)
           mt == IF lower(requested) = S_imagen THEN S_gemini ELSE requested
       IN  /\ Enter("transform", p, kw, mt)
           /\ pc' = "call_gemini"
           /\ model' = get_model_name(Str(mt), TRUE)

\* variant: the isinstance check is missing
after_primary_unchecked(res) ==
    IF IsRaise(res) THEN "failed" ELSE "naming"

\* where the operation goes with the primary call's result: an exception
\* propagates, a result that is not bytes raises ValueError
after_primary(res) ==
    IF IsRaise(res) THEN "failed"
    ELSE IF ~isinstance_bytes(res) THEN "failed"
         ELSE "naming"

primary_failure(res) ==
    IF IsRaise(res) THEN res
    ELSE IF ~isinstance_bytes(res)
         THEN Raise("ValueError", "Expected bytes response from Google")
         ELSE PyNone

\* the primary _call_gemini of generate_image / transform_image: what it
\* raises propagates to the caller, what it returns is assigned to response
call_gemini_primary ==
    /\ pc = "call_gemini"
    /\ \E outcome \in GenerateContentOutcomes :
          LET res == call_gemini(outcome, FALSE)
          IN  /\ calls' = Append(calls, ExternalCall("generate_content", model))
              /\ extraction' = [t |-> "call", outcome |-> outcome,
                                text_only |-> FALSE, result |-> res]
              /\ response' = res
              /\ pc' = IF IsRaise(res) THEN "failed" ELSE "check_response"
              /\ failure' = IF IsRaise(res) THEN res ELSE PyNone
    /\ UNCHANGED <<default_model, op, kwargs, prompt, model_type, model, filename,
                   scratch, temp_path, sel>>

\* `if not isinstance(response, bytes): raise ValueError(...)`; the frame of
\* the _call_gemini that returned is gone
check_response ==
    /\ pc = "check_response"
    /\ pc' = after_primary(response)
    /\ failure' = primary_failure(response)
    /\ extraction' = NoExtraction
    /\ UNCHANGED <<default_model, op, kwargs, prompt, model_type, model, response,
                   filename, calls, scratch, temp_path, sel>>

---------------------------------------------------------------------------
(* _call_imagen *)

\* variant: the file is removed only after a successful read-back
scratch_after_exit_no_finally(files, path, ok) ==
    IF ok THEN files \ {path} ELSE files

\* the finally clause: `if os.path.exists(temp_path): os.unlink(temp_path)`
scratch_after_exit(files, path, ok) ==
    IF path \in files THEN files \ {path} ELSE files

\* generated_image.image.save(temp_path) followed by reading the file back
png_bytes(image) == Bytes(image.png)

\* the generate_images call, the checks on its response and the creation of
\* the temporary file (NamedTemporaryFile(delete=False), which may fail)
call_imagen_request ==
    /\ pc = "call_imagen"
    /\ calls' = Append(calls, ExternalCall("generate_images", IMAGEN_MODEL))
    /\ \E outcome \in GenerateImagesOutcomes :
          IF IsRaise(outcome)
          THEN /\ response' = outcome
               /\ failure' = outcome
               /\ pc' = "failed"
               /\ UNCHANGED <<scratch, temp_path>>
          ELSE IF ~Truthy(outcome.v.generated_images)
          THEN /\ response' = Raise("ValueError",
                       "Image generation failed. No images were returned from Imagen.")
               /\ failure' = response'
               /\ pc' = "failed"
               /\ UNCHANGED <<scratch, temp_path>>
          ELSE LET generated_image == outcome.v.generated_images.v[1]
               IN  IF hasattr_image(generated_image) /\ ~IsNone(generated_image.image)
                   THEN \/ \E name \in TempNames \ scratch :
                              /\ scratch' = scratch \cup {name}
                              /\ temp_path' = name
                              /\ response' = outcome
                              /\ failure' = PyNone
                              /\ pc' = "imagen_save"
                        \/ /\ response' = Raise("OSError", "cannot create temporary file")
                           /\ failure' = response'
                           /\ pc' = "failed"
                           /\ UNCHANGED <<scratch, temp_path>>
                   ELSE /\ response' = Raise("ValueError",
                               "Generated image does not have a valid image attribute")
                        /\ failure' = response'
                        /\ pc' = "failed"
                        /\ UNCHANGED <<scratch, temp_path>>
    /\ UNCHANGED <<default_model, op, kwargs, prompt, model_type, model, extraction,
                   filename, sel>>

\* generated_image.image.save(temp_path): on failure the finally clause runs
\* and the exception propagates
call_imagen_save ==
    /\ pc = "imagen_save"
    /\ \E ok \in BOOLEAN :
          IF ok
          THEN /\ pc' = "imagen_read"
               /\ UNCHANGED <<response, failure, scratch, temp_path>>
          ELSE /\ scratch' = scratch_after_exit(scratch, temp_path, FALSE)
               /\ temp_path' = NoPath
               /\ response' = Raise("OSError", "cannot save image")
               /\ failure' = response'
               /\ pc' = "failed"
    /\ UNCHANGED <<default_model, op, kwargs, prompt, model_type, model, extraction,
                   filename, calls, sel>>

\* open(temp_path, 'rb').read() and the finally clause; the bytes are
\* returned to generate_image
call_imagen_read ==
    /\ pc = "imagen_read"
    /\ \E ok \in BOOLEAN :
          LET res == IF ok
                     THEN Return(png_bytes(response.v.generated_images.v[1].image))
                     ELSE Raise("OSError", "cannot read image")
          IN  /\ scratch' = scratch_after_exit(scratch, temp_path, ok)
              /\ temp_path' = NoPath
              /\ response' = res
              /\ failure' = IF ok THEN PyNone ELSE res
              /\ pc' = IF ok THEN "check_response" ELSE "failed"
    /\ UNCHANGED <<default_model, op, kwargs, prompt, model_type, model, extraction,
                   filename, calls, sel>>

---------------------------------------------------------------------------
(* naming, persistence, return *)

\* convert_prompt_to_filename(prompt, model_type): one text-only
\* generate_content call on the auxiliary model, then the file name
convert_prompt_to_filename_call ==
    /\ pc = "naming"
    /\ \E outcome \in GenerateContentOutcomes, uuid4 \in Uuids :
          /\ calls' = Append(calls, ExternalCall("generate_content",
                                      get_model_name(Str(S_gemini), FALSE)))
          /\ extraction' = [t |-> "call", outcome |-> outcome, text_only |-> TRUE,
                            result |-> call_gemini(outcome, TRUE)]
          /\ filename' = Str(convert_prompt_to_filename(prompt, model_type,
                                                        outcome, uuid4))
    /\ pc' = "persist"
    /\ UNCHANGED <<default_model, op, kwargs, prompt, model_type, model, response,
                   scratch, temp_path, failure, sel>>

\* await save_image(response, filename): returns a path or raises; the
\* frame of convert_prompt_to_filename is gone
save_image_call ==
    /\ pc = "persist"
    /\ calls' = Append(calls, ExternalCall("save_image", ""))
    /\ \E ok \in BOOLEAN :
          IF ok
          THEN pc' = "done" /\ failure' = PyNone
          ELSE pc' = "failed" /\ failure' = Raise("OSError", "save_image failed")
    /\ extraction' = NoExtraction
    /\ UNCHANGED <<default_model, op, kwargs, prompt, model_type, model, response,
                   filename, scratch, temp_path, sel>>

\* the operation returns its tuple or its exception to the caller
return_to_caller ==
    /\ pc \in {"done", "failed"}
    /\ pc' = "idle"
    /\ op' = "none"
    /\ kwargs' = {}
    /\ prompt' = <<>>
    /\ model_type' = <<>>
    /\ model' = ""
    /\ response' = NoCall
    /\ extraction' = NoExtraction
    /\ filename' = PyNone
    /\ calls' = <<>>
    /\ failure' = PyNone
    /\ UNCHANGED <<default_model, scratch, temp_path, sel>>

\* _get_model_name called on its own, between operations
resolve_model_name ==
    /\ pc = "idle"
    /\ \E mt \in {PyNone} \cup {Str(f) : f \in Families}, for_generation \in BOOLEAN :
          sel' = [t |-> "call", model_type |-> mt, for_generation |-> for_generation,
                  result |-> get_model_name(mt, for_generation)]
    /\ UNCHANGED <<default_model, pc, op, kwargs, prompt, model_type, model, response,
                   extraction, filename, calls, scratch, temp_path, failure>>

Next ==
    \/ \E p \in Prompts, kw \in KwargsValues : generate_image(p, kw)
    \/ \E p \in Prompts, kw \in KwargsValues : transform_image(p, kw)
    \/ call_gemini_primary
    \/ check_response
    \/ call_imagen_request
    \/ call_imagen_save
    \/ call_imagen_read
    \/ convert_prompt_to_filename_call
    \/ save_image_call
    \/ return_to_caller
    \/ resolve_model_name

Spec == Init /\ [][Next]_vars

---------------------------------------------------------------------------
(* Vocabulary of the properties *)

EndsWith(s, suffix) ==
    /\ Len(s) >= Len(suffix)
    /\ SubSeq(s, Len(s) - Len(suffix) + 1, Len(s)) = suffix

StartsWith(s, prefix) ==
    /\ Len(s) >= Len(prefix)
    /\ SubSeq(s, 1, Len(prefix)) = prefix

\* "imagen" in any letter case, letter by letter
AnyCaseImagen(s) ==
    /\ Len(s) = 6
    /\ s[1] \in {"i", "I"} /\ s[2] \in {"m", "M"} /\ s[3] \in {"a", "A"}
    /\ s[4] \in {"g", "G"} /\ s[5] \in {"e", "E"} /\ s[6] \in {"n", "N"}

\* s without its leading and trailing whitespace
Trimmed(s) ==
    LET inked == {i \in 1..Len(s) : ~IsSpace(s[i])}
    IN  IF inked = {} THEN <<>>
        ELSE SubSeq(s, CHOOSE i \in inked : \A j \in inked : i <= j,
                       CHOOSE i \in inked : \A j \in inked : j <= i)

Underscored(s) == [i \in 1..Len(s) |-> IF s[i] = " " THEN "_" ELSE s[i]]

FirstChars(s, n) == [i \in 1..(IF Len(s) < n THEN Len(s) ELSE n) |-> s[i]]

\* the family the caller asked for, if model_type was passed, else the default
RequestedOrDefault ==
    IF \E e \in kwargs : e[1] = "model_type"
    THEN (CHOOSE e \in kwargs : e[1] = "model_type")[2]
    ELSE default_model

PrimaryCalled == op # "none" /\ Len(calls) >= 1

IsMultimodal(call) == call.api = "generate_content"
IsSynthesis(call) == call.api = "generate_images"

---------------------------------------------------------------------------
(* C1 *)

\* C1: in every transform, whatever the requested and the default family,
\* the primary backend call is a generate_content call on the default-family
\* generation model; generate_images is never called and the synthesis
\* model id is never passed to generate_content.
C1_TransformUsesGeminiImageModel ==
    (op = "transform" /\ PrimaryCalled) =>
        /\ calls[1] = ExternalCall("generate_content", GEMINI_IMAGE_MODEL)
        /\ \A i \in 1..Len(calls) :
              /\ ~IsSynthesis(calls[i])
              /\ ~(IsMultimodal(calls[i]) /\ calls[i].model = IMAGEN_MODEL)

---------------------------------------------------------------------------
(* C2 *)

\* C2: in generate the effective family is the requested family if given,
\* else the default; generate_images is the primary call exactly when the
\* effective family is "imagen" in any case, otherwise generate_content is
\* called with the model id _get_model_name resolves for generation, which
\* is the default-family generation id; generate_content never receives the
\* synthesis model id.
C2_GenerateDispatchAgreesWithSelector ==
    (op = "generate" /\ PrimaryCalled) =>
        /\ IF AnyCaseImagen(RequestedOrDefault)
           THEN calls[1] = ExternalCall("generate_images", IMAGEN_MODEL)
           ELSE /\ IsMultimodal(calls[1])
                /\ calls[1].model = get_model_name(Str(RequestedOrDefault), TRUE)
                /\ calls[1].model = GEMINI_IMAGE_MODEL
        /\ \A i \in 1..Len(calls) :
              ~(IsMultimodal(calls[i]) /\ calls[i].model = IMAGEN_MODEL)

---------------------------------------------------------------------------
(* C3 *)

NamingCall == ExternalCall("generate_content", GEMINI_FLASH)
PersistCall == ExternalCall("save_image", "")

\* the operation failed before its primary call produced image bytes
PrimaryFailed == pc = "failed" /\ ~isinstance_bytes(response)

C3_Order ==
    /\ Len(calls) <= 3
    /\ PrimaryCalled => (IsMultimodal(calls[1]) \/ IsSynthesis(calls[1]))
    /\ PrimaryFailed => (IsRaise(failure) /\ Len(calls) = 1)
    /\ pc \in {"naming", "persist", "done"} => isinstance_bytes(response)
    /\ Len(calls) >= 2 =>
          /\ calls[2] = NamingCall
          /\ isinstance_bytes(response)
    /\ Len(calls) = 3 =>
          /\ calls[3] = PersistCall
          /\ filename.t = "str"

C3_Step ==
    PrimaryFailed => (calls' = calls \/ (pc' = "idle" /\ calls' = <<>>))

\* C3: a generate or transform whose primary call fails (backend error, bad
\* response shape, no generated image, value that is not bytes) ends with an
\* error after exactly one external call, and no call follows the failure;
\* the naming call comes only after the primary call produced bytes, the
\* persistence call only after the naming step returned a name.
C3_NoCallAfterPrimaryFailure == []C3_Order /\ [][C3_Step]_vars

\* a primary call that returned a payload that is not bytes
C3_Witness ==
    /\ PrimaryFailed
    /\ IsReturn(response)
    /\ failure = Raise("ValueError", "Expected bytes response from Google")
    /\ Len(calls) = 1

---------------------------------------------------------------------------
(* C4 *)

\* the naming call returned a response whose first candidate, content and
\* first part are present and whose first part has a text
NamingTextPresent(outcome) ==
    /\ IsReturn(outcome)
    /\ outcome.v.candidates.t = "list"
    /\ Len(outcome.v.candidates.v) > 0
    /\ outcome.v.candidates.v[1].t = "Candidate"
    /\ outcome.v.candidates.v[1].content.t = "Content"
    /\ outcome.v.candidates.v[1].content.parts.t = "list"
    /\ Len(outcome.v.candidates.v[1].content.parts.v) > 0
    /\ outcome.v.candidates.v[1].content.parts.v[1].t = "Part"
    /\ outcome.v.candidates.v[1].content.parts.v[1].text.t = "str"

NamingText(outcome) == outcome.v.candidates.v[1].content.parts.v[1].text.v

FallbackHead ==
    S_image_ \o Underscored(Trimmed(FirstChars(prompt, 12)))
        \o S_underscore \o model_type \o S_underscore

\* C4: the naming step always returns a name. With a text from the naming
\* call the name is the trimmed text with spaces as underscores, "_" and the
\* family; with a backend error or a response that fails extraction it is
\* "image_", the first 12 characters of the prompt (trimmed, underscored),
\* "_", the family, "_" and 8 more characters. An operation whose primary
\* call produced bytes fails only in the persistence call.
C4_NamingNeverFails ==
    /\ pc = "persist" =>
          /\ filename.t = "str"
          /\ IF NamingTextPresent(extraction.outcome)
             THEN filename.v = Underscored(Trimmed(NamingText(extraction.outcome)))
                                  \o S_underscore \o model_type
             ELSE /\ StartsWith(filename.v, FallbackHead)
                  /\ Len(filename.v) = Len(FallbackHead) + 8
    /\ (pc = "failed" /\ isinstance_bytes(response)) =>
          /\ Len(calls) = 3
          /\ calls[3] = PersistCall
          /\ filename.t = "str"

\* the naming backend call raised and a fallback name was returned for a
\* prompt longer than 12 characters
C4_Witness ==
    /\ pc = "persist"
    /\ IsRaise(extraction.outcome)
    /\ Len(prompt) > 12
    /\ filename.t = "str"

---------------------------------------------------------------------------
(* C10 *)

\* C10: the temporary file of _call_imagen exists only between its creation
\* and the end of the save / read-back; after a successful read, a failed
\* save or a failed read, and when no file was created, no temporary file
\* is left.
C10_NoScratchLeft ==
    IF pc \in {"imagen_save", "imagen_read"}
    THEN scratch = {temp_path}
    ELSE scratch = {}

\* a save to the temporary location failed and the file is gone
C10_Witness ==
    /\ pc = "failed"
    /\ failure = Raise("OSError", "cannot save image")
    /\ scratch = {}

---------------------------------------------------------------------------
(* C5, C6, C9: the response given to the latest _call_gemini *)

Extracted == extraction.t = "call" /\ IsReturn(extraction.outcome)
Resp == extraction.outcome.v

NoCandidates == Resp.candidates.t = "NoneType" \/ Resp.candidates.v = <<>>
FirstCandidateAbsent == ~NoCandidates /\ Resp.candidates.v[1].t = "NoneType"
HasCandidate == ~NoCandidates /\ Resp.candidates.v[1].t = "Candidate"
NoContent == HasCandidate /\ Resp.candidates.v[1].content.t = "NoneType"
HasContent == HasCandidate /\ Resp.candidates.v[1].content.t = "Content"
PartsField == Resp.candidates.v[1].content.parts
NoParts == HasContent /\ (PartsField.t = "NoneType" \/ PartsField.v = <<>>)
HasParts == HasContent /\ ~(PartsField.t = "NoneType" \/ PartsField.v = <<>>)
Parts == PartsField.v
FirstPartAbsent == HasParts /\ Parts[1].t = "NoneType"
NullText == HasParts /\ Parts[1].t = "Part" /\ Parts[1].text.t = "NoneType"
AllPartsPresent == HasParts /\ \A i \in 1..Len(Parts) : Parts[i].t = "Part"

\* the part carries inline data with a non-null payload
CarriesData(part) ==
    /\ part.t = "Part"
    /\ part.inline_data.t = "Blob"
    /\ part.inline_data.data.t # "NoneType"

\* the shapes the extractor rejects
RejectedShape ==
    \/ NoCandidates
    \/ FirstCandidateAbsent
    \/ NoContent
    \/ NoParts
    \/ extraction.text_only /\ (FirstPartAbsent \/ NullText)
    \/ ~extraction.text_only /\ AllPartsPresent
          /\ \A i \in 1..Len(Parts) : ~CarriesData(Parts[i])

WellFormed ==
    /\ AllPartsPresent
    /\ IF extraction.text_only
       THEN Parts[1].text.t = "str"
       ELSE \E i \in 1..Len(Parts) : CarriesData(Parts[i])

\* C5: the extractor raises (ValueError) for: no candidates, first candidate
\* absent, absent content, no parts; in text mode also first part absent or
\* null text; in binary mode also parts none of which carries a non-null
\* payload. It returns for every well-formed response, and in text mode an
\* empty-string text is returned as the empty text.
C5_ExtractorRejectsExactlyBadShapes ==
    Extracted =>
        /\ RejectedShape => (IsRaise(extraction.result)
                               /\ extraction.result.exc = "ValueError")
        /\ WellFormed => IsReturn(extraction.result)
        /\ (extraction.text_only /\ AllPartsPresent /\ Parts[1].text = Str(<<>>))
              => extraction.result = Return(Str(<<>>))

\* a text-mode response whose first part has the empty string as text
C5_Witness ==
    /\ Extracted
    /\ extraction.text_only
    /\ AllPartsPresent
    /\ Parts[1].text = Str(<<>>)
    /\ IsReturn(extraction.result)

\* C9: in binary mode, when every element is a part and some part carries a
\* non-null payload, the result is the payload of the first such part,
\* whatever parts without payload come before or after it.
C9_FirstBinaryWins ==
    (Extracted /\ ~extraction.text_only /\ AllPartsPresent
        /\ \E i \in 1..Len(Parts) : CarriesData(Parts[i])) =>
        LET first == CHOOSE i \in 1..Len(Parts) :
                        /\ CarriesData(Parts[i])
                        /\ \A j \in 1..(i - 1) : ~CarriesData(Parts[j])
        IN  extraction.result = Return(Parts[first].inline_data.data)

\* [image-1, image-2]: two parts with different payloads, the first returned
C9_Witness ==
    /\ Extracted
    /\ ~extraction.text_only
    /\ AllPartsPresent
    /\ Len(Parts) = 2
    /\ CarriesData(Parts[1]) /\ CarriesData(Parts[2])
    /\ Parts[1].inline_data.data # Parts[2].inline_data.data
    /\ extraction.result = Return(Parts[1].inline_data.data)

\* the four conditions of the data model
Condition ==
    CASE NoCandidates -> "no candidates"
      [] NoContent -> "candidate with no content"
      [] NoParts -> "content with no parts"
      [] extraction.text_only /\ NullText -> "text part with null text"
      [] OTHER -> "other"

FourConditions ==
    {"no candidates", "candidate with no content", "content with no parts",
     "text part with null text"}

\* one response for each of the four conditions
ConditionExample(c) ==
    CASE c = "no candidates" -> GenerateContentResponse(List(<<>>))
      [] c = "candidate with no content" ->
            GenerateContentResponse(List(<<Candidate(PyNone)>>))
      [] c = "content with no parts" ->
            GenerateContentResponse(List(<<Candidate(Content(List(<<>>)))>>))
      [] c = "text part with null text" ->
            GenerateContentResponse(List(<<Candidate(Content(List(
                <<Part(PyNone, Blob(Bytes("png-1")))>>)))>>))

FailureOf(c) == call_gemini(Return(ConditionExample(c)), extraction.text_only)

\* the conditions that exist in the mode of the latest extraction
ConditionsOfMode ==
    IF extraction.text_only THEN FourConditions
    ELSE FourConditions \ {"text part with null text"}

\* C6 as stated: each of the four conditions raises, and the failure tells
\* which of the four occurred: no other condition produces the same failure.
C6_FourDistinctFailures ==
    (Extracted /\ Condition \in FourConditions) =>
        /\ IsRaise(extraction.result)
        /\ \A c \in ConditionsOfMode :
              (FailureOf(c) = extraction.result) <=> (c = Condition)

\* what a failure tells: "no candidates" and "candidate with no content"
\* are one class
FailureClass(c) ==
    IF c \in {"no candidates", "candidate with no content"}
    THEN "no valid response"
    ELSE c

\* C6 amended: each of the four conditions raises; "no candidates" and
\* "candidate with no content" raise the same failure; that failure, the
\* one of "content with no parts" and the one of "text part with null text"
\* are pairwise different.
C6_ThreeDistinctFailures ==
    (Extracted /\ Condition \in FourConditions) =>
        /\ IsRaise(extraction.result)
        /\ \A c \in ConditionsOfMode :
              (FailureOf(c) = extraction.result)
                  <=> (FailureClass(c) = FailureClass(Condition))

\* a candidate with no content, reported with the failure of "no candidates"
C6_Witness ==
    /\ Extracted
    /\ Condition = "candidate with no content"
    /\ extraction.result = FailureOf("no candidates")

---------------------------------------------------------------------------
(* C7 *)

\* the family tag of the running operation: the requested family or the
\* default, and "gemini" for a transform that was asked for "imagen"
OperationFamily ==
    IF op = "transform" /\ AnyCaseImagen(RequestedOrDefault)
    THEN S_gemini
    ELSE RequestedOrDefault

Named == op # "none" /\ filename.t = "str"

\* the name without its last n characters
DropLast(s, n) == SubSeq(s, 1, Len(s) - n)

\* C7 as stated: every derived name, LLM-derived or fallback, ends with the
\* family tag of its operation as its final component.
C7_NameEndsWithFamilyTag ==
    Named => EndsWith(filename.v, S_underscore \o OperationFamily)

\* the name is the fallback name: "image_" first, and, 9 characters before
\* the end, the family tag followed by "_"
FallbackTagged(name) ==
    /\ StartsWith(name, S_image_)
    /\ Len(name) >= 9
    /\ name[Len(name) - 8] = "_"
    /\ EndsWith(DropLast(name, 9), S_underscore \o OperationFamily)

\* C7 amended: an LLM-derived name ends with "_" and the family tag of its
\* operation; a fallback name carries "_" and the family tag followed by
\* "_" and an 8-character suffix, so there the tag is the last component
\* but one.
C7_NameCarriesFamilyTag ==
    Named =>
        IF pc = "persist"
        THEN IF isinstance_str(extraction.result)
             THEN EndsWith(filename.v, S_underscore \o OperationFamily)
             ELSE FallbackTagged(filename.v)
        ELSE \/ EndsWith(filename.v, S_underscore \o OperationFamily)
             \/ FallbackTagged(filename.v)

\* a transform asked for "imagen" whose naming call failed: the fallback
\* name carries the tag "gemini" before its suffix
C7_Witness ==
    /\ pc = "persist"
    /\ op = "transform"
    /\ AnyCaseImagen(RequestedOrDefault)
    /\ IsRaise(extraction.result)
    /\ FallbackTagged(filename.v)
    /\ ~EndsWith(filename.v, S_underscore \o OperationFamily)

---------------------------------------------------------------------------
(* C8 *)

\* C8 as stated: the family that decides is the requested family if one is
\* given (None is the only absent value), else the default family
SelectorReference(mt, for_generation) ==
    IF ~for_generation THEN GEMINI_FLASH
    ELSE IF AnyCaseImagen(IF mt.t = "str" THEN mt.v ELSE default_model)
         THEN IMAGEN_MODEL
         ELSE GEMINI_IMAGE_MODEL

\* C8 amended: an empty requested family counts as not given
SelectorReferenceAmended(mt, for_generation) ==
    IF ~for_generation THEN GEMINI_FLASH
    ELSE IF AnyCaseImagen(IF mt.t = "str" /\ mt.v # <<>> THEN mt.v
                          ELSE default_model)
         THEN IMAGEN_MODEL
         ELSE GEMINI_IMAGE_MODEL

\* C8 as stated: for every requested family (absent, empty, any token),
\* every default and both values of for_generation, _get_model_name returns
\* the auxiliary id when not generating, and otherwise the alternate id
\* exactly when (requested if given, else default) is "imagen" in any case.
C8_SelectorMatchesReference ==
    sel.t = "call" =>
        sel.result = SelectorReference(sel.model_type, sel.for_generation)

\* C8 amended: the same, where the deciding family is the requested family
\* if it is given and not empty, else the default family.
C8_SelectorMatchesAmendedReference ==
    sel.t = "call" =>
        sel.result = SelectorReferenceAmended(sel.model_type, sel.for_generation)

\* an empty requested family resolved through an "imagen" default
C8_Witness ==
    /\ sel.t = "call"
    /\ sel.for_generation
    /\ sel.model_type = Str(<<>>)
    /\ AnyCaseImagen(default_model)
    /\ sel.result = IMAGEN_MODEL

====
